---- MODULE Spec2Model ----
(***************************************************************************)
(* Model of scripts/detect_plate.py: the command-line driver that parses   *)
(* its options, constructs the plate detector, and for every entry of the  *)
(* source directory filters by extension, decodes, detects, draws the      *)
(* boxes and writes the annotated image to the destination directory.      *)
(*                                                                         *)
(* Thresholds are kept as integer hundredths (10 stands for 0.10).         *)
(* File names are sequences of one-character strings.                      *)
(***************************************************************************)
EXTENDS Integers, Sequences, FiniteSets, TLC

VARIABLES
    argv,          \* the raw command line
    listing,       \* what os.listdir(opt.source) returns, in its order
    disk,          \* existing directory path -> (file name -> file content)
    memo,          \* the detector's answers so far (it is deterministic)
    pc,            \* position of main()
    opt,           \* the namespace parse_opt() returned, or None
    detector,      \* the constructor arguments of the Detection object, or None
    i,             \* index in listing of the candidate of the current iteration
    img,           \* main's local img
    results,       \* main's local results
    resized_img,   \* main's local resized_img (the buffer drawn on and saved)
    bb_scale,      \* the bb_scale argument of the last detector.detect call
    err,           \* the call that raised, when pc = "crashed"
    state,         \* per candidate: the step of the pipeline it has reached
    imread_calls,  \* names handed to cv2.imread in this run
    detect_calls,  \* names whose image was handed to detector.detect in this run
    imwrite_calls, \* names handed to cv2.imwrite in this run
    run,           \* "first" or "second" invocation of the program
    disk0          \* the disk as it was when this invocation started

vars == <<argv, listing, disk, memo, pc, opt, detector, i, img, results,
          resized_img, bb_scale, err, state, imread_calls, detect_calls,
          imwrite_calls, run, disk0>>

-----------------------------------------------------------------------------
(* Bounds of the model *)

MaxArity == 3      \* longest --imgsz value list
MaxFiles == 2      \* most entries in the source directory
MaxResults == 2    \* most detections the detector returns for one image

None == [none |-> TRUE]

-----------------------------------------------------------------------------
(* Option defaults *)

DefaultImgsz == 1280
DefaultConfThres == 10
DefaultIouThres == 50
DefaultMaxDet == 1000
DefaultWeights == "object.pt"
DefaultSource == "ch_imgs"
DefaultDes == "ch_out"
DefaultDevice == "cpu"

\* a value list of --imgsz with members of D, of any length up to MaxArity
ImgszLists(D) == UNION {[1..n -> D] : n \in 0..MaxArity}

-----------------------------------------------------------------------------
(* str.lower, str.endswith, is_image_file *)

UpperCase == <<"A","B","C","D","E","F","G","H","I","J","K","L","M",
               "N","O","P","Q","R","S","T","U","V","W","X","Y","Z">>
LowerCase == <<"a","b","c","d","e","f","g","h","i","j","k","l","m",
               "n","o","p","q","r","s","t","u","v","w","x","y","z">>

lower_char(c) ==
    IF \E k \in 1..Len(UpperCase) : UpperCase[k] = c
    THEN LowerCase[CHOOSE k \in 1..Len(UpperCase) : UpperCase[k] = c]
    ELSE c

lower(s) == [k \in 1..Len(s) |-> lower_char(s[k])]

endswith(s, suffix) ==
    /\ Len(s) >= Len(suffix)
    /\ SubSeq(s, Len(s) - Len(suffix) + 1, Len(s)) = suffix

IMAGE_SUFFIXES == { <<".","p","n","g">>, <<".","j","p","g">>,
                    <<".","j","p","e","g">>, <<".","b","m","p">> }

is_image_file_no_lower(filename) ==
    \E suffix \in IMAGE_SUFFIXES : endswith(filename, suffix)

is_image_file(filename) ==
    \E suffix \in IMAGE_SUFFIXES : endswith(lower(filename), suffix)

-----------------------------------------------------------------------------
(* parse_opt *)

\* argparse: nargs='+' needs at least one value when the flag is given
argparse_accepts(a) == a.imgsz_given => Len(a.imgsz) >= 1

argparse_namespace(a) ==
    [ weights    |-> a.weights,
      source     |-> a.source,
      des        |-> a.des,
      imgsz      |-> IF a.imgsz_given THEN a.imgsz ELSE <<DefaultImgsz>>,
      conf_thres |-> a.conf_thres,
      iou_thres  |-> a.iou_thres,
      max_det    |-> a.max_det,
      device     |-> a.device,
      keep_size  |-> a.keep_size ]

parse_opt_no_square(a) == argparse_namespace(a)

parse_opt(a) ==
    LET ns == argparse_namespace(a)
    IN  IF Len(ns.imgsz) = 1
        THEN [ns EXCEPT !.imgsz = ns.imgsz \o ns.imgsz]
        ELSE ns

-----------------------------------------------------------------------------
(* Files, buffers, cv2.imread / cv2.imwrite *)

Image(id) == [id |-> id, marks |-> {}, size |-> "native"]
NotAnImage == [undecodable |-> TRUE]

IsImageContent(c) == c # NotAnImage

\* cv2.imread: a buffer, or None when the content does not decode
imread(dir, name) ==
    IF IsImageContent(disk[dir][name])
    THEN [id    |-> disk[dir][name].id,
          marks |-> disk[dir][name].marks,
          size  |-> disk[dir][name].size,
          role  |-> "original"]
    ELSE None

\* what cv2.imwrite stores for a buffer
encode(buf) == [id |-> buf.id, marks |-> buf.marks, size |-> buf.size]

put(d, name, content) ==
    [n \in (DOMAIN d) \cup {name} |-> IF n = name THEN content ELSE d[n]]

ReadOnlyDir == "ro_dir"
DirPaths == {DefaultSource, DefaultDes, ReadOnlyDir}

writable(dir) == dir # ReadOnlyDir

\* os.makedirs(path, exist_ok=True)
makedirs(d, path) ==
    IF path \in DOMAIN d
    THEN d
    ELSE [p \in (DOMAIN d) \cup {path} |-> IF p = path THEN << >> ELSE d[p]]

-----------------------------------------------------------------------------
(* The Detection object: its code is not part of scripts/, so it is         *)
(* modelled by its contract.  It is deterministic: memo holds the answer it *)
(* gave for each (image, flag) it has seen.                                 *)

DetectorOutcomes ==
    {[raises |-> TRUE, n |-> 0, bad |-> FALSE]}
    \cup {o \in [raises : {FALSE}, n : 0..MaxResults, bad : BOOLEAN] :
              o.bad => o.n >= 1}

\* Detection(size=..., weights_path=..., device=..., iou_thres=..., conf_thres=...)
Detection(o) ==
    [ size         |-> o.imgsz,
      weights_path |-> o.weights,
      device       |-> o.device,
      iou_thres    |-> o.iou_thres,
      conf_thres   |-> o.conf_thres ]

memo_key(image, flag) == [image |-> encode(image), bb_scale |-> flag]

\* the outcomes detect may have for this image, given what it answered before
detect_outcomes(image, flag) ==
    IF \E m \in memo : m.key = memo_key(image, flag)
    THEN {m.outcome : m \in {x \in memo : x.key = memo_key(image, flag)}}
    ELSE DetectorOutcomes

\* the (name, conf, box) triples: boxes are in the space the flag asks for,
\* and a malformed box (one int() cannot convert) may be the last one
detect_results(outcome, flag) ==
    [k \in 1..outcome.n |->
        [ name |-> "plate",
          box  |-> [ id    |-> k,
                     space |-> IF flag THEN "original" ELSE "processed",
                     ok    |-> ~(outcome.bad /\ k = outcome.n) ] ]]

\* the buffer the detector worked on
detect_processed(image) ==
    [image EXCEPT !.size = "inference", !.role = "processed"]

-----------------------------------------------------------------------------
(* main(): the pieces of the loop body *)

\* the flag main hands to detector.detect
detect_flag(o) == o.keep_size

\* if opt.keep_size: resized_img = img
choose_canvas_always_processed(o, image, processed) == processed

choose_canvas(o, image, processed) ==
    IF o.keep_size THEN image ELSE processed

\* the for loop over results: map(int, box) raises on a malformed box,
\* otherwise the rectangle and the label are drawn
RECURSIVE draw_from(_, _, _)
draw_from(canvas, res, k) ==
    IF k > Len(res)
    THEN [raised |-> FALSE, canvas |-> canvas]
    ELSE IF ~res[k].box.ok
         THEN [raised |-> TRUE, canvas |-> canvas]
         ELSE draw_from([canvas EXCEPT !.marks = @ \cup {res[k].box.id}],
                        res, k + 1)

\* os.path.join(opt.des, img_name)
output_path_fresh_name(des, img_name) ==
    [ dir  |-> des,
      name |-> IF des \in DOMAIN disk /\ img_name \in DOMAIN disk[des]
               THEN img_name \o <<"_">> ELSE img_name ]

output_path(des, img_name) == [dir |-> des, name |-> img_name]

\* cv2.imwrite: stores the encoded buffer, or stores nothing (and returns
\* False) when the file cannot be created
imwrite(d, path, buf) ==
    IF path.dir \in DOMAIN d /\ writable(path.dir)
    THEN [d EXCEPT ![path.dir] = put(@, path.name, encode(buf))]
    ELSE d

-----------------------------------------------------------------------------
(* Inputs: command lines and source directories *)

Files ==
    { [name |-> <<"a",".","j","p","g">>,     content |-> Image("a")],
      [name |-> <<"B",".","P","N","G">>,     content |-> Image("b")],
      [name |-> <<"c",".","J","p","E","g">>, content |-> NotAnImage],
      [name |-> <<"d",".","t","x","t">>,     content |-> NotAnImage],
      [name |-> <<"b","m","p">>,             content |-> Image("e")] }

\* a directory: up to MaxFiles entries with distinct names, in listing order
Directories ==
    {d \in UNION {[1..n -> Files] : n \in 0..MaxFiles} :
        \A j, k \in 1..Len(d) : j # k => d[j].name # d[k].name}

\* conf-thres, iou-thres, max-det: the defaults, and each one off its range
\* or below what the detector can return
ThresholdArgs ==
    { [conf_thres |-> DefaultConfThres, iou_thres |-> DefaultIouThres, max_det |-> DefaultMaxDet],
      [conf_thres |-> 150,              iou_thres |-> DefaultIouThres, max_det |-> DefaultMaxDet],
      [conf_thres |-> DefaultConfThres, iou_thres |-> -50,             max_det |-> DefaultMaxDet],
      [conf_thres |-> DefaultConfThres, iou_thres |-> DefaultIouThres, max_det |-> 0],
      [conf_thres |-> DefaultConfThres, iou_thres |-> DefaultIouThres, max_det |-> 1] }

Argv(given, sizes, t, des, keep) ==
    [ weights     |-> DefaultWeights,
      source      |-> DefaultSource,
      des         |-> des,
      imgsz_given |-> given,
      imgsz       |-> sizes,
      conf_thres  |-> t.conf_thres,
      iou_thres   |-> t.iou_thres,
      max_det     |-> t.max_det,
      device      |-> DefaultDevice,
      keep_size   |-> keep ]

\* command lines of the whole-program runs
MainArgvs ==
    {Argv(FALSE, << >>, t, des, keep) :
        t \in ThresholdArgs, des \in DirPaths, keep \in BOOLEAN}
    \cup
    {Argv(TRUE, sizes, t, des, keep) :
        sizes \in ImgszLists({DefaultImgsz}), t \in ThresholdArgs,
        des \in DirPaths, keep \in BOOLEAN}

\* command lines for parse_opt alone
OptArgvs ==
    {Argv(FALSE, << >>, t, DefaultDes, keep) :
        t \in ThresholdArgs, keep \in BOOLEAN}
    \cup
    {Argv(TRUE, sizes, t, DefaultDes, keep) :
        sizes \in ImgszLists({320, 640}), t \in ThresholdArgs, keep \in BOOLEAN}

\* command lines argparse accepts with every option in its documented range
ValidArgvs ==
    {Argv(FALSE, << >>,
          [conf_thres |-> DefaultConfThres, iou_thres |-> DefaultIouThres,
           max_det |-> DefaultMaxDet], des, keep) :
        des \in DirPaths, keep \in BOOLEAN}

names_of(d) == [k \in 1..Len(d) |-> d[k].name]

contents_of(d) ==
    [n \in {d[k].name : k \in 1..Len(d)} |->
        (CHOOSE f \in {d[k] : k \in 1..Len(d)} : f.name = n).content]

\* the disk before the first run: the source directory and a read-only
\* directory exist, the default destination does not
initial_disk(d) ==
    [p \in {DefaultSource, ReadOnlyDir} |->
        IF p = DefaultSource THEN contents_of(d) ELSE << >>]

\* the state of a process that has just entered main()
Entered ==
    /\ pc = "parse"
    /\ opt = None
    /\ detector = None
    /\ i = 0
    /\ img = None
    /\ results = << >>
    /\ resized_img = None
    /\ bb_scale = FALSE
    /\ err = ""
    /\ state = [k \in 1..Len(listing) |-> "Enumerated"]
    /\ imread_calls = {}
    /\ detect_calls = {}
    /\ imwrite_calls = {}

Boot(args, dirs) ==
    /\ argv \in args
    /\ \E d \in dirs :
          /\ listing = names_of(d)
          /\ disk = initial_disk(d)
          /\ disk0 = initial_disk(d)
    /\ memo = {}
    /\ run = "first"
    /\ Entered

Init == Boot(MainArgvs, Directories)

InitOpt == Boot(OptArgvs, {<< >>})

InitTwice == Boot(ValidArgvs, Directories)

-----------------------------------------------------------------------------
(* main() *)

LoopLocals == <<img, results, resized_img, bb_scale>>
Calls == <<imread_calls, detect_calls, imwrite_calls>>
Environment == <<argv, listing, run, disk0>>

\* opt = parse_opt(), when argparse accepts the command line
ParseOpt ==
    /\ pc = "parse"
    /\ argparse_accepts(argv)
    /\ opt' = parse_opt(argv)
    /\ pc' = "setup"
    /\ UNCHANGED <<Environment, disk, memo, detector, i, LoopLocals, err,
                   state, Calls>>

\* parser.parse_args() reports a usage error and exits with status 2
ParseOptError ==
    /\ pc = "parse"
    /\ ~argparse_accepts(argv)
    /\ pc' = "exit2"
    /\ UNCHANGED <<Environment, disk, memo, opt, detector, i, LoopLocals,
                   err, state, Calls>>

\* os.makedirs(opt.des, exist_ok=True); detector = Detection(...);
\* the for statement evaluates os.listdir(opt.source)
Setup ==
    /\ pc = "setup"
    /\ disk' = makedirs(disk, opt.des)
    /\ detector' = Detection(opt)
    /\ i' = 1
    /\ pc' = "for"
    /\ UNCHANGED <<Environment, memo, opt, LoopLocals, err, state, Calls>>

\* for img_name in ...: if not is_image_file(img_name): warn; continue
Filter ==
    /\ pc = "for"
    /\ i <= Len(listing)
    /\ IF is_image_file(listing[i])
       THEN /\ pc' = "imread"
            /\ UNCHANGED <<i, state>>
       ELSE /\ state' = [state EXCEPT ![i] = "Skipped"]
            /\ i' = i + 1
            /\ pc' = "for"
    /\ UNCHANGED <<Environment, disk, memo, opt, detector, LoopLocals, err,
                   Calls>>

\* the listing is exhausted: main() returns
Return ==
    /\ pc = "for"
    /\ i > Len(listing)
    /\ pc' = "done"
    /\ UNCHANGED <<Environment, disk, memo, opt, detector, i, LoopLocals,
                   err, state, Calls>>

\* img = cv2.imread(img_path); if img is None: warn; continue
ReadUnchecked ==
    /\ pc = "imread"
    /\ img' = imread(opt.source, listing[i])
    /\ imread_calls' = imread_calls \cup {listing[i]}
    /\ state' = [state EXCEPT ![i] = "Loaded"]
    /\ pc' = "detect"
    /\ UNCHANGED <<Environment, disk, memo, opt, detector, i, results,
                   resized_img, bb_scale, err, detect_calls, imwrite_calls>>

Read ==
    /\ pc = "imread"
    /\ img' = imread(opt.source, listing[i])
    /\ imread_calls' = imread_calls \cup {listing[i]}
    /\ IF img' = None
       THEN /\ state' = [state EXCEPT ![i] = "Skipped"]
            /\ i' = i + 1
            /\ pc' = "for"
       ELSE /\ state' = [state EXCEPT ![i] = "Loaded"]
            /\ pc' = "detect"
            /\ UNCHANGED i
    /\ UNCHANGED <<Environment, disk, memo, opt, detector, results,
                   resized_img, bb_scale, err, detect_calls, imwrite_calls>>

\* results, resized_img = detector.detect(img.copy(), bb_scale=opt.keep_size)
\* if opt.keep_size: resized_img = img
Detect ==
    /\ pc = "detect"
    /\ bb_scale' = detect_flag(opt)
    /\ detect_calls' = detect_calls \cup {listing[i]}
    /\ \E outcome \in detect_outcomes(img, bb_scale') :
          /\ memo' = memo \cup {[key |-> memo_key(img, bb_scale'),
                                 outcome |-> outcome]}
          /\ IF outcome.raises
             THEN /\ pc' = "crashed"
                  /\ err' = "detect"
                  /\ UNCHANGED <<results, resized_img, state>>
             ELSE /\ results' = detect_results(outcome, bb_scale')
                  /\ resized_img' = choose_canvas(opt, img, detect_processed(img))
                  /\ state' = [state EXCEPT ![i] = "Detected"]
                  /\ pc' = "annotate"
                  /\ UNCHANGED err
    /\ UNCHANGED <<Environment, disk, opt, detector, i, img, imread_calls,
                   imwrite_calls>>

\* for name, conf, box in results: convert the box, draw it and its label
Annotate ==
    /\ pc = "annotate"
    /\ LET drawn == draw_from(resized_img, results, 1)
       IN  IF drawn.raised
           THEN /\ pc' = "crashed"
                /\ err' = "int"
                /\ UNCHANGED <<resized_img, state>>
           ELSE /\ resized_img' = drawn.canvas
                /\ state' = [state EXCEPT ![i] = "Annotated"]
                /\ pc' = "imwrite"
                /\ UNCHANGED err
    /\ UNCHANGED <<Environment, disk, memo, opt, detector, i, img, results,
                   bb_scale, Calls>>

\* cv2.imwrite(output_path, resized_img); logger.info("Saved result ...")
Write ==
    /\ pc = "imwrite"
    /\ disk' = imwrite(disk, output_path(opt.des, listing[i]), resized_img)
    /\ imwrite_calls' = imwrite_calls \cup {output_path(opt.des, listing[i]).name}
    /\ state' = [state EXCEPT ![i] = "Persisted"]
    /\ i' = i + 1
    /\ pc' = "for"
    /\ UNCHANGED <<Environment, memo, opt, detector, LoopLocals, err,
                   detect_calls, imread_calls>>

Terminated == pc \in {"done", "crashed", "exit2"}

\* the same command line is run again on the disk the first run left
RunAgain ==
    /\ Terminated
    /\ run = "first"
    /\ run' = "second"
    /\ disk0' = disk
    /\ pc' = "parse"
    /\ opt' = None
    /\ detector' = None
    /\ i' = 0
    /\ img' = None
    /\ results' = << >>
    /\ resized_img' = None
    /\ bb_scale' = FALSE
    /\ err' = ""
    /\ state' = [k \in 1..Len(listing) |-> "Enumerated"]
    /\ imread_calls' = {}
    /\ detect_calls' = {}
    /\ imwrite_calls' = {}
    /\ UNCHANGED <<argv, listing, disk, memo>>

Next ==
    \/ ParseOpt
    \/ ParseOptError
    \/ Setup
    \/ Filter
    \/ Return
    \/ Read
    \/ Detect
    \/ Annotate
    \/ Write

NextOpt ==
    \/ ParseOpt
    \/ ParseOptError

NextTwice ==
    \/ ParseOpt
    \/ Setup
    \/ Filter
    \/ Return
    \/ Read
    \/ Detect
    \/ Annotate
    \/ Write
    \/ RunAgain

Spec == Init /\ [][Next]_vars

SpecOpt == InitOpt /\ [][NextOpt]_vars

SpecTwice == InitTwice /\ [][NextTwice]_vars

-----------------------------------------------------------------------------
(* Vocabulary of the properties *)

\* the part of a name after its last dot; empty when it has no dot
Extension(name) ==
    IF \E k \in 1..Len(name) : name[k] = "."
    THEN LET dot == CHOOSE k \in 1..Len(name) :
                       /\ name[k] = "."
                       /\ \A j \in (k + 1)..Len(name) : name[j] # "."
         IN  SubSeq(name, dot + 1, Len(name))
    ELSE << >>

\* png, jpg, jpeg, bmp in every letter case
SupportedExtensions ==
    ({"p","P"} \X {"n","N"} \X {"g","G"})
    \cup ({"j","J"} \X {"p","P"} \X {"g","G"})
    \cup ({"j","J"} \X {"p","P"} \X {"e","E"} \X {"g","G"})
    \cup ({"b","B"} \X {"m","M"} \X {"p","P"})

Supported(name) == Extension(name) \in SupportedExtensions

Candidates == 1..Len(listing)

\* the content the candidate's file had when the run started
AtStart(k) == disk0[argv.source][listing[k]]

Undecodable(k) == Supported(listing[k]) /\ AtStart(k) = NotAnImage

OutOfRange ==
    \/ argv.conf_thres < 0 \/ argv.conf_thres > 100
    \/ argv.iou_thres < 0 \/ argv.iou_thres > 100
    \/ argv.max_det <= 0

Untouched ==
    /\ imread_calls = {}
    /\ detect_calls = {}
    /\ imwrite_calls = {}

-----------------------------------------------------------------------------
(* C1: a failure while processing one candidate never leaves the loop: the  *)
(* run does not end in an uncaught exception, and when main() has ended     *)
(* every candidate of the listing has been processed.                       *)
C1_FailureNeverAborts ==
    /\ pc # "crashed"
    /\ pc = "done" => \A k \in Candidates : state[k] \in {"Persisted", "Skipped"}

(* C2: parse_opt resolves a one-element --imgsz [d] to (d, d) and leaves a  *)
(* two-element [h, w] as (h, w), same order and values.                     *)
C2_ImgszResolved ==
    (opt # None /\ argv.imgsz_given) =>
        /\ Len(argv.imgsz) = 1 => opt.imgsz = <<argv.imgsz[1], argv.imgsz[1]>>
        /\ Len(argv.imgsz) = 2 => opt.imgsz = <<argv.imgsz[1], argv.imgsz[2]>>

C2_Witness ==
    /\ pc = "setup"
    /\ argv.imgsz_given
    /\ Len(argv.imgsz) = 1

(* C3: an --imgsz of a length other than 1 or 2 is a configuration error:   *)
(* the detector is never constructed and no entry is enumerated, decoded or *)
(* written.                                                                 *)
C3_BadArityRejected ==
    (argv.imgsz_given /\ Len(argv.imgsz) \notin {1, 2}) =>
        /\ detector = None
        /\ i = 0
        /\ Untouched

(* C4: with conf-thres or iou-thres outside [0,1], or max-det not above 0,  *)
(* the run ends in a configuration error and no image is decoded, handed to *)
(* the detector or written.                                                 *)
C4_ThresholdsFailFast ==
    OutOfRange =>
        /\ Untouched
        /\ Terminated => pc = "exit2"

(* C5: an entry whose name does not end, in any letter case, in .png, .jpg, *)
(* .jpeg or .bmp is skipped: never decoded, never handed to the detector,   *)
(* nothing written under its name; an entry whose name does end in one of   *)
(* them passes the extension filter and is decoded.                         *)
C5_ExtensionFilter ==
    \A k \in Candidates :
        /\ ~Supported(listing[k]) =>
              /\ listing[k] \notin imread_calls
              /\ listing[k] \notin detect_calls
              /\ listing[k] \notin imwrite_calls
              /\ k = i => pc = "for"
              /\ k < i => state[k] = "Skipped"
        /\ Supported(listing[k]) =>
              /\ k < i => listing[k] \in imread_calls
              /\ k = i => (pc = "for" \/ pc = "imread" \/ listing[k] \in imread_calls)
              /\ (k = i /\ pc = "for") => state[k] = "Enumerated"

C5_Witness ==
    /\ pc = "done"
    /\ \E j, k \in Candidates :
          /\ ~Supported(listing[j])
          /\ state[j] = "Skipped"
          /\ Supported(listing[k])
          /\ listing[k] # lower(listing[k])
          /\ listing[k] \in imread_calls

(* C6: a candidate with a supported extension that does not decode is not   *)
(* handed to the detector, nothing is written for it, and the loop goes on  *)
(* to the next candidate.                                                   *)
C6_UndecodableSkipped ==
    \A k \in Candidates :
        Undecodable(k) =>
            /\ listing[k] \notin detect_calls
            /\ listing[k] \notin imwrite_calls
            /\ disk[argv.source][listing[k]] = NotAnImage
            /\ k = i => pc \in {"for", "imread"}
            /\ k < i => state[k] = "Skipped"

C6_Witness ==
    /\ pc = "imread"
    /\ i >= 2
    /\ Undecodable(i - 1)
    /\ listing[i - 1] \in imread_calls

(* C7: the sequence detect returns, which the driver draws, is never longer *)
(* than the configured max_det.                                             *)
C7_AtMostMaxDet ==
    pc \in {"annotate", "imwrite"} => Len(results) <= opt.max_det

(* C8: a second run with the same command line leaves the destination       *)
(* directory exactly as the first run left it, whatever the destination.    *)
C8_Idempotent ==
    (run = "second" /\ Terminated) => disk[argv.des] = disk0[argv.des]

(* C8 amended: the same, when the destination is not the source directory.  *)
C8_IdempotentApart ==
    (run = "second" /\ Terminated /\ argv.des # argv.source) =>
        disk[argv.des] = disk0[argv.des]

C8_Witness ==
    /\ run = "second"
    /\ pc = "done"
    /\ argv.des = DefaultDes
    /\ \E n \in DOMAIN disk[argv.des] : disk[argv.des][n].marks # {}

(* C9: the flag handed to detect is keep_size, the buffer drawn on and      *)
(* saved is the decoded original exactly when keep_size is set and the      *)
(* detector's processed image otherwise, so every box is drawn on a buffer  *)
(* of the coordinate space the box is expressed in.                         *)
C9_CanvasMatchesBoxes ==
    /\ pc \in {"annotate", "imwrite"} =>
          /\ bb_scale = opt.keep_size
          /\ resized_img.role = (IF opt.keep_size THEN "original" ELSE "processed")
          /\ resized_img.id = img.id
          /\ resized_img.size = (IF opt.keep_size THEN img.size ELSE "inference")
          /\ \A k \in 1..Len(results) : results[k].box.space = resized_img.role
    /\ pc = "annotate" =>
          resized_img = (IF opt.keep_size THEN img ELSE detect_processed(img))
    /\ (pc = "for" /\ i >= 2 /\ state[i - 1] = "Persisted" /\ writable(opt.des)) =>
          disk[opt.des][listing[i - 1]] = encode(resized_img)

C9_Witness ==
    /\ pc = "imwrite"
    /\ opt.keep_size
    /\ Len(results) >= 1
    /\ resized_img.marks # {}

(* C10: with a detector that returns, the run ends with every candidate     *)
(* Persisted or Skipped, and the Persisted ones are exactly the candidates  *)
(* with a supported extension that decoded, each written under its own      *)
(* name in the destination directory.                                       *)
C10_FinalResult ==
    (Terminated /\ pc # "exit2" /\ err # "detect") =>
        \A k \in Candidates :
            /\ state[k] \in {"Persisted", "Skipped"}
            /\ state[k] = "Persisted" <=>
                   (Supported(listing[k]) /\ AtStart(k) # NotAnImage)
            /\ state[k] = "Persisted" =>
                   /\ listing[k] \in imwrite_calls
                   /\ listing[k] \in DOMAIN disk[opt.des]
                   /\ disk[opt.des][listing[k]] # NotAnImage

====
